---- MODULE Spec2Model ----
(***************************************************************************)
(* Session state, user-info extraction, conversation stages and the        *)
(* streaming responder of the fragrance chatbot (src/main.py).             *)
(*                                                                         *)
(* Text is a sequence of one-character strings, so that lower(),           *)
(* capitalize(), strip(), substring tests and the two regular expressions  *)
(* are computed character by character, as Python computes them.           *)
(*                                                                         *)
(* Each request is a task of one event loop.  A task runs without          *)
(* interruption from one suspension point (an await that suspends, a       *)
(* yield) to the next; `running` names the task that holds the loop.       *)
(* The upstream client is the synchronous one: a task that waits for the   *)
(* upstream keeps the loop.                                                *)
(*                                                                         *)
(* Three specifications over the same actions:                             *)
(*   Spec        two concurrent requests, on one session or on two;        *)
(*   SpecStream  one request, every kind of upstream chunk, the flush      *)
(*               timer;                                                    *)
(*   SpecTurns   one client that sends turn after turn, with a clock that  *)
(*               jumps by 1800 s and by more.                              *)
(***************************************************************************)
EXTENDS Integers, Sequences, FiniteSets, TLC

\* ---------------------------------------------------------------- text

\* A str is the sequence of its characters.  Python's None is a sequence
\* too, of one element that is no character, so that it differs from every str.
None == <<"None">>

LowerCase == <<"a","b","c","d","e","f","g","h","i","j","k","l","m",
               "n","o","p","q","r","s","t","u","v","w","x","y","z">>
UpperCase == <<"A","B","C","D","E","F","G","H","I","J","K","L","M",
               "N","O","P","Q","R","S","T","U","V","W","X","Y","Z">>

RangeOf(s) == {s[i] : i \in 1..Len(s)}

\* [a-zA-Z]
Alpha == RangeOf(LowerCase) \cup RangeOf(UpperCase)
\* \s
Space == {" ", "\t", "\n"}

IndexIn(c, s) == CHOOSE i \in 1..Len(s) : s[i] = c

LowerChar(c) == IF c \in RangeOf(UpperCase) THEN LowerCase[IndexIn(c, UpperCase)] ELSE c
UpperChar(c) == IF c \in RangeOf(LowerCase) THEN UpperCase[IndexIn(c, LowerCase)] ELSE c

\* str.lower()
Lower(s) == [i \in 1..Len(s) |-> LowerChar(s[i])]

\* str.capitalize(): the first character upper-cased, the rest lower-cased
Capitalize(s) == [i \in 1..Len(s) |-> IF i = 1 THEN UpperChar(s[i]) ELSE LowerChar(s[i])]

\* str.strip(): leading and trailing whitespace removed
Strip(s) ==
    LET kept == {i \in 1..Len(s) : s[i] \notin Space}
        lo == CHOOSE x \in kept : \A y \in kept : x <= y
        hi == CHOOSE x \in kept : \A y \in kept : x >= y
    IN  IF kept = {} THEN <<>> ELSE SubSeq(s, lo, hi)

\* lit occurs in s at position i
MatchAt(s, i, lit) ==
    /\ i + Len(lit) - 1 <= Len(s)
    /\ \A k \in 1..Len(lit) : s[i + k - 1] = lit[k]

\* Python's  lit in s
Contains(s, lit) == \E i \in 1..Len(s) : MatchAt(s, i, lit)

\* any(indicator in s for indicator in indicators)
AnyIn(indicators, s) == \E k \in 1..Len(indicators) : Contains(s, indicators[k])

\* x in list
InList(x, list) == \E k \in 1..Len(list) : list[k] = x

\* the end of a greedy run of characters of class cls that starts at i:
\* the first position >= i whose character is not in cls (Len(s) + 1 at the end)
RECURSIVE RunEnd(_, _, _)
RunEnd(s, i, cls) ==
    IF i > Len(s) \/ s[i] \notin cls THEN i ELSE RunEnd(s, i + 1, cls)

\* the first alternative of alts that occurs in s at position i (0: none)
RECURSIVE AltAt(_, _, _, _)
AltAt(s, i, alts, k) ==
    IF k > Len(alts) THEN 0
    ELSE IF MatchAt(s, i, alts[k]) THEN k
    ELSE AltAt(s, i, alts, k + 1)

\* the alternatives of name_pattern, in order
name_prefixes == <<
    <<"m","y"," ","n","a","m","e"," ","i","s">>, <<"i","'","m">>,
    <<"i"," ","a","m">>, <<"c","a","l","l"," ","m","e">>>>

\* the alternatives of the two keyword groups of scent_pattern, in order
scent_nouns == <<
    <<"s","m","e","l","l">>, <<"s","c","e","n","t">>,
    <<"f","r","a","g","r","a","n","c","e">>,
    <<"p","e","r","f","u","m","e">>, <<"c","o","l","o","g","n","e">>>>
scent_preps == <<
    <<"o","f">>, <<"l","i","k","e">>, <<"w","i","t","h">>>>

scent_types == <<
    [key |-> <<"f","l","o","r","a","l">>,
     indicators |-> <<
        <<"f","l","o","r","a","l">>, <<"f","l","o","w","e","r","y">>,
        <<"r","o","s","e">>, <<"j","a","s","m","i","n","e">>,
        <<"l","i","l","y">>, <<"l","a","v","e","n","d","e","r">>>>],
    [key |-> <<"w","o","o","d","y">>,
     indicators |-> <<
        <<"w","o","o","d","y">>, <<"w","o","o","d">>, <<"c","e","d","a","r">>,
        <<"s","a","n","d","a","l","w","o","o","d">>, <<"p","i","n","e">>,
        <<"f","o","r","e","s","t">>>>],
    [key |-> <<"c","i","t","r","u","s">>,
     indicators |-> <<
        <<"c","i","t","r","u","s">>, <<"l","e","m","o","n">>,
        <<"o","r","a","n","g","e">>,
        <<"g","r","a","p","e","f","r","u","i","t">>, <<"l","i","m","e">>,
        <<"b","e","r","g","a","m","o","t">>>>],
    [key |-> <<"s","p","i","c","y">>,
     indicators |-> <<
        <<"s","p","i","c","y">>, <<"c","i","n","n","a","m","o","n">>,
        <<"p","e","p","p","e","r">>, <<"g","i","n","g","e","r">>,
        <<"c","a","r","d","a","m","o","m">>>>],
    [key |-> <<"f","r","e","s","h">>,
     indicators |-> <<
        <<"f","r","e","s","h">>, <<"c","l","e","a","n">>,
        <<"c","r","i","s","p">>, <<"o","c","e","a","n">>, <<"a","i","r">>,
        <<"b","r","e","e","z","e">>>>],
    [key |-> <<"s","w","e","e","t">>,
     indicators |-> <<
        <<"s","w","e","e","t">>, <<"v","a","n","i","l","l","a">>,
        <<"c","a","r","a","m","e","l">>, <<"h","o","n","e","y">>,
        <<"s","u","g","a","r">>>>],
    [key |-> <<"e","a","r","t","h","y">>,
     indicators |-> <<
        <<"e","a","r","t","h","y">>, <<"m","o","s","s">>, <<"s","o","i","l">>,
        <<"p","e","t","r","i","c","h","o","r">>, <<"g","r","a","s","s">>>>],
    [key |-> <<"a","q","u","a","t","i","c">>,
     indicators |-> <<
        <<"a","q","u","a","t","i","c">>, <<"m","a","r","i","n","e">>,
        <<"o","c","e","a","n">>, <<"s","e","a">>, <<"w","a","t","e","r">>>>],
    [key |-> <<"o","r","i","e","n","t","a","l">>,
     indicators |-> <<
        <<"o","r","i","e","n","t","a","l">>, <<"e","x","o","t","i","c">>,
        <<"a","m","b","e","r">>, <<"m","u","s","k">>,
        <<"i","n","c","e","n","s","e">>>>],
    [key |-> <<"f","r","u","i","t","y">>,
     indicators |-> <<
        <<"f","r","u","i","t","y">>, <<"a","p","p","l","e">>,
        <<"b","e","r","r","y">>, <<"p","e","a","c","h">>, <<"p","e","a","r">>,
        <<"t","r","o","p","i","c","a","l">>>>]
>>

personality_indicators == <<
    [key |-> <<"a","d","v","e","n","t","u","r","o","u","s">>,
     indicators |-> <<
        <<"a","d","v","e","n","t","u","r","o","u","s">>,
        <<"o","u","t","g","o","i","n","g">>, <<"b","o","l","d">>,
        <<"d","a","r","i","n","g">>, <<"e","x","p","l","o","r","e","r">>>>],
    [key |-> <<"r","o","m","a","n","t","i","c">>,
     indicators |-> <<
        <<"r","o","m","a","n","t","i","c">>,
        <<"p","a","s","s","i","o","n","a","t","e">>,
        <<"l","o","v","i","n","g">>,
        <<"s","e","n","t","i","m","e","n","t","a","l">>>>],
    [key |-> <<"s","o","p","h","i","s","t","i","c","a","t","e","d">>,
     indicators |-> <<
        <<"s","o","p","h","i","s","t","i","c","a","t","e","d">>,
        <<"e","l","e","g","a","n","t">>, <<"r","e","f","i","n","e","d">>,
        <<"c","l","a","s","s","y">>>>],
    [key |-> <<"m","i","n","i","m","a","l","i","s","t">>,
     indicators |-> <<
        <<"m","i","n","i","m","a","l","i","s","t">>,
        <<"s","i","m","p","l","e">>, <<"c","l","e","a","n">>,
        <<"u","n","d","e","r","s","t","a","t","e","d">>>>],
    [key |-> <<"c","r","e","a","t","i","v","e">>,
     indicators |-> <<
        <<"c","r","e","a","t","i","v","e">>,
        <<"a","r","t","i","s","t","i","c">>,
        <<"i","m","a","g","i","n","a","t","i","v","e">>,
        <<"i","n","n","o","v","a","t","i","v","e">>>>]
>>

style_categories == <<
    [key |-> <<"c","a","s","u","a","l">>,
     indicators |-> <<
        <<"c","a","s","u","a","l">>, <<"e","v","e","r","y","d","a","y">>,
        <<"r","e","l","a","x","e","d">>,
        <<"c","o","m","f","o","r","t","a","b","l","e">>,
        <<"l","a","i","d","-","b","a","c","k">>>>],
    [key |-> <<"f","o","r","m","a","l">>,
     indicators |-> <<
        <<"f","o","r","m","a","l">>,
        <<"p","r","o","f","e","s","s","i","o","n","a","l">>,
        <<"b","u","s","i","n","e","s","s">>, <<"e","l","e","g","a","n","t">>,
        <<"s","o","p","h","i","s","t","i","c","a","t","e","d">>>>],
    [key |-> <<"b","o","h","e","m","i","a","n">>,
     indicators |-> <<
        <<"b","o","h","e","m","i","a","n">>, <<"b","o","h","o">>,
        <<"f","r","e","e","-","s","p","i","r","i","t","e","d">>,
        <<"a","r","t","i","s","t","i","c">>,
        <<"e","c","l","e","c","t","i","c">>>>],
    [key |-> <<"c","l","a","s","s","i","c">>,
     indicators |-> <<
        <<"c","l","a","s","s","i","c">>,
        <<"t","r","a","d","i","t","i","o","n","a","l">>,
        <<"t","i","m","e","l","e","s","s">>, <<"r","e","f","i","n","e","d">>>>],
    [key |-> <<"m","o","d","e","r","n">>,
     indicators |-> <<
        <<"m","o","d","e","r","n">>,
        <<"c","o","n","t","e","m","p","o","r","a","r","y">>,
        <<"t","r","e","n","d","y">>,
        <<"f","a","s","h","i","o","n","a","b","l","e">>>>]
>>

\* ----------------------------------------------------- extract_user_info

\* name_pattern  (?:my name is|i'm|i am|call me)\s+([A-Za-z]+)  tried at
\* position i: the span [from, to) of group 1, or from = 0 when it fails
NameMatchAt(s, i) ==
    LET k  == AltAt(s, i, name_prefixes, 1)
        j  == IF k = 0 THEN 0 ELSE i + Len(name_prefixes[k])
        sp == IF k = 0 THEN 0 ELSE RunEnd(s, j, Space)
    IN  IF k # 0 /\ sp > j /\ sp <= Len(s) /\ s[sp] \in Alpha
        THEN [from |-> sp, to |-> RunEnd(s, sp, Alpha)]
        ELSE [from |-> 0, to |-> 0]

\* re.search(name_pattern, s): group 1 of the leftmost match, or None
RECURSIVE NameSearch(_, _)
NameSearch(s, i) ==
    IF i > Len(s) THEN None
    ELSE LET m == NameMatchAt(s, i)
         IN  IF m.from # 0 THEN SubSeq(s, m.from, m.to - 1) ELSE NameSearch(s, i + 1)

\* scent_pattern
\*   (?:smell|scent|fragrance|perfume|cologne)\s+(?:of|like|with)\s+([a-zA-Z\s]+)
\* tried at position i: the span [from, to) of group 1, or from = 0.
\* The last \s+ is greedy; when no letter follows it, it gives one
\* whitespace character back and group 1 is that character.
ScentMatchAt(s, i) ==
    LET k1  == AltAt(s, i, scent_nouns, 1)
        j1  == IF k1 = 0 THEN 0 ELSE i + Len(scent_nouns[k1])
        sp1 == IF k1 = 0 THEN 0 ELSE RunEnd(s, j1, Space)
        k2  == IF k1 = 0 \/ sp1 = j1 THEN 0 ELSE AltAt(s, sp1, scent_preps, 1)
        j2  == IF k2 = 0 THEN 0 ELSE sp1 + Len(scent_preps[k2])
        sp2 == IF k2 = 0 THEN 0 ELSE RunEnd(s, j2, Space)
    IN  IF k2 = 0 \/ sp2 = j2 THEN [from |-> 0, to |-> 0]
        ELSE IF sp2 <= Len(s) /\ s[sp2] \in Alpha
             THEN [from |-> sp2, to |-> RunEnd(s, sp2, Alpha \cup Space)]
        ELSE IF sp2 - j2 >= 2 THEN [from |-> sp2 - 1, to |-> sp2]
        ELSE [from |-> 0, to |-> 0]

\* re.findall(scent_pattern, s): group 1 of each match, scanning left to
\* right from position i, each scan resuming where the last match ended
RECURSIVE ScentFindAll(_, _)
ScentFindAll(s, i) ==
    IF i > Len(s) THEN <<>>
    ELSE LET m == ScentMatchAt(s, i)
         IN  IF m.from # 0
             THEN <<SubSeq(s, m.from, m.to - 1)>> \o ScentFindAll(s, m.to)
             ELSE ScentFindAll(s, i + 1)

\* What extract_user_info reads off the message alone: the result of
\* re.search (line 112), of each any(...) (lines 131, 145, 158) in the
\* order of its table, and of re.findall (line 164)
Analysis(message) ==
    LET s == Lower(message)
    IN  [name_match    |-> NameSearch(s, 1),
         scent_hits    |-> [k \in 1..Len(scent_types) |->
                               AnyIn(scent_types[k].indicators, s)],
         trait_hits    |-> [k \in 1..Len(personality_indicators) |->
                               AnyIn(personality_indicators[k].indicators, s)],
         style_hits    |-> [k \in 1..Len(style_categories) |->
                               AnyIn(style_categories[k].indicators, s)],
         scent_matches |-> ScentFindAll(s, 1)]

\* (mutant) the name is looked for in every message
ExtractName_Again(name, name_match) ==
    IF name_match # None THEN Capitalize(name_match) ELSE name

\* lines 110-114: the name is looked for only while none is set
ExtractName(name, name_match) ==
    IF name = None
    THEN IF name_match # None THEN Capitalize(name_match) ELSE name
    ELSE name

\* lines 130-132 and 144-146: for each entry of the table, in order, its
\* key is appended when an indicator occurs and the key is not listed
RECURSIVE AppendMatching(_, _, _, _)
AppendMatching(list, tbl, hits, k) ==
    IF k > Len(tbl) THEN list
    ELSE IF hits[k] /\ ~InList(tbl[k].key, list)
         THEN AppendMatching(Append(list, tbl[k].key), tbl, hits, k + 1)
         ELSE AppendMatching(list, tbl, hits, k + 1)

\* lines 157-159: every matching style overwrites the one before
RECURSIVE AssignStyle(_, _, _)
AssignStyle(style, hits, k) ==
    IF k > Len(style_categories) THEN style
    ELSE IF hits[k]
         THEN AssignStyle(style_categories[k].key, hits, k + 1)
         ELSE AssignStyle(style, hits, k + 1)

\* (mutant) each capture, stripped, is appended
RECURSIVE AppendScents_Unchecked(_, _, _)
AppendScents_Unchecked(list, matches, k) ==
    IF k > Len(matches) THEN list
    ELSE AppendScents_Unchecked(Append(list, Strip(matches[k])), matches, k + 1)

\* lines 165-167: each capture, stripped, is appended unless listed
RECURSIVE AppendScents(_, _, _)
AppendScents(list, matches, k) ==
    IF k > Len(matches) THEN list
    ELSE IF ~InList(Strip(matches[k]), list)
         THEN AppendScents(Append(list, Strip(matches[k])), matches, k + 1)
         ELSE AppendScents(list, matches, k + 1)

\* lines 109-168 given what the message holds, as the new value of
\* context.user_info
ApplyAnalysis(a, user_info) ==
    [name               |-> ExtractName(user_info.name, a.name_match),
     scent_preferences  |-> AppendMatching(user_info.scent_preferences, scent_types,
                                           a.scent_hits, 1),
     personality_traits |-> AppendMatching(user_info.personality_traits,
                                           personality_indicators, a.trait_hits, 1),
     style              |-> AssignStyle(user_info.style, a.style_hits, 1),
     mentioned_scents   |-> AppendScents(user_info.mentioned_scents, a.scent_matches, 1)]

\* ------------------------------------------------------------ constants

\* line 176: a session is cold after more than 1800 seconds
ColdSeconds == 1800
\* the clock counts hundredths of a second
ColdAfter == ColdSeconds * 100
\* line 347: the buffer is flushed at 3 characters ...
FlushLen == 3
\* line 347: ... or 0.1 s after the last flush
FlushInterval == 10
\* line 349: the typing delay is at least 0.05 s
MinDelay == 5

SYSTEM_PROMPT == "SYSTEM_PROMPT"

\* lines 329, 365, 374: the three apology fragments
\* (each is encoded like None: one element that is no character)
ApologyConnecting == <<"apology: connecting to the AI service">>
ApologyResponse == <<"apology: processing the response">>
ApologyMessage == <<"apology: processing your message">>
Apologies == {ApologyConnecting, ApologyResponse, ApologyMessage}

Stages == <<"greeting", "getting_to_know", "exploring_preferences", "refining_selection">>

\* ---------------------------------------------------------------- bounds

\* upstream chunks of one stream, of two concurrent ones
MaxChunks == 2
\* upstream chunks of the stream of SpecStream
MaxStreamChunks == 3
\* clock advances in one behaviour
MaxTicks == 1
\* turns one client has finished before its last one
MaxTurns == 3

\* ---------------------------------------------------------------- inputs

S1 == <<"s","1">>
S2 == <<"s","2">>
SessionIds == {S1, S2}

MsgAlice == <<"m","y"," ","n","a","m","e"," ","i","s"," ","A","l","i","c","e">>
\* two traits and no scent
MsgTraits == <<"b","o","l","d",","," ","c","l","e","a","n">>
\* a name, two traits, and the captures "rose", "rose" and " "
MsgBob == <<"c","a","l","l"," ","m","e"," ","B","O","B",","," ","b","o","l","d",",",
            " ","c","l","e","a","n",":"," ","s","m","e","l","l"," ","o","f"," ",
            "r","o","s","e",","," ","s","c","e","n","t"," ","o","f"," ","r","o","s","e",
            ","," ","s","c","e","n","t"," ","o","f"," "," ",".">>
\* a message that is no str (a JSON number), encoded like None
NonStr == <<"int">>

\* the JSON bodies posted to /chat; a key that is absent reads as None
Malformed == {[session_id |-> None, message |-> MsgAlice],
              [session_id |-> S1, message |-> None],
              [session_id |-> S2, message |-> <<>>]}

\* Spec: two concurrent requests, on the same session or on two
Tasks == {1, 2}
Bodies == {[session_id |-> S1, message |-> MsgAlice],
           [session_id |-> S1, message |-> MsgBob],
           [session_id |-> S2, message |-> MsgAlice]} \cup Malformed
Chunks == {<<"a">>, <<"b","c">>}
Delays == {MinDelay}

\* SpecStream: one request, every kind of upstream chunk, the flush timer
StreamBodies == {[session_id |-> S1, message |-> MsgAlice],
                 [session_id |-> S1, message |-> NonStr]}
\* delta.content of an upstream chunk: None, or a piece of text
StreamChunks == {None, <<>>, <<"a">>, <<"b","c">>}
StreamDelays == {MinDelay, FlushInterval}
StreamTicks == {FlushInterval}

\* SpecTurns: one client, one turn after the other, a clock that jumps
TurnBodies == {[session_id |-> S1, message |-> MsgAlice],
               [session_id |-> S1, message |-> MsgTraits],
               [session_id |-> S1, message |-> MsgBob]}
TurnTicks == {ColdAfter, ColdAfter + 1}

\* every str message of the three input sets, analysed once
Texts == {b.message : b \in {x \in Bodies \cup StreamBodies \cup TurnBodies :
                                  x.message # None /\ x.message # NonStr}}
AnalysisOf == [m \in Texts |-> Analysis(m)]

\* extract_user_info(message, context), as the new value of
\* context.user_info; the message is one of Texts
extract_user_info(message, user_info) == ApplyAnalysis(AnalysisOf[message], user_info)

\* --------------------------------------------------------------- state

VARIABLES
    now,              \* time.time()
    ticks,            \* clock advances so far
    turns,            \* turns finished by a client that went on to another
    heap,             \* the SessionContext objects, in order of creation
    sessions,         \* the dict sessions: session id -> index into heap, 0 when absent
    running,          \* the task the event loop is executing (0: none)
    pc,               \* where each request is
    data,             \* its parsed body
    session_context,  \* its SessionContext (index into heap)
    status,           \* the HTTP status of its response (0: none yet)
    out,              \* the fragments its caller has received
    messages,         \* the message list sent upstream
    buffer,           \* locals of generate_streaming_response
    full_response,
    last_yield_time,
    current_time,
    nchunks,          \* upstream chunks received
    upstream,         \* the text the upstream has delivered, concatenated
    hist_before,      \* the session's history when the turn began
    stage_before,     \* the session's stage when the turn began
    cold,             \* whether the session was cold when the turn began
    overlapped,       \* whether another turn of the session was in flight with this one
    outcome           \* how the stream ended

store == <<heap, sessions>>
locals == <<buffer, full_response, last_yield_time, current_time, nchunks, upstream>>
turn == <<messages, hist_before, stage_before, cold, overlapped>>
vars == <<now, ticks, turns, heap, sessions, running, pc, data, session_context,
          status, out, messages, buffer, full_response, last_yield_time,
          current_time, nchunks, upstream, hist_before, stage_before, cold, overlapped,
          outcome>>

\* ------------------------------------------------------- SessionContext

\* SessionContext.__init__
SessionContext(session_id, t) ==
    [session_id           |-> session_id,
     last_interaction     |-> t,
     conversation_stage   |-> "greeting",
     conversation_history |-> <<>>,
     user_info            |-> [name               |-> None,
                               personality_traits |-> <<>>,
                               style              |-> None,
                               mentioned_scents   |-> <<>>,
                               scent_preferences  |-> <<>>]]

\* SessionContext.add_message
add_message(context, role, content, t) ==
    [context EXCEPT !.conversation_history = Append(@, [role |-> role, content |-> content]),
                    !.last_interaction = t]

\* (mutant) the reset comes at 1800 seconds already
update_conversation_stage_AtThreshold(context, t) ==
    LET time_since_last == t - context.last_interaction
        stage == IF time_since_last >= ColdAfter
                 THEN "greeting"
                 ELSE context.conversation_stage
    IN  IF stage = "greeting"
        THEN IF context.user_info.name # None THEN "getting_to_know" ELSE stage
        ELSE IF stage = "getting_to_know"
        THEN IF Len(context.user_info.personality_traits) >= 2
             THEN "exploring_preferences" ELSE stage
        ELSE IF stage = "exploring_preferences"
        THEN IF Len(context.user_info.mentioned_scents) >= 2
             THEN "refining_selection" ELSE stage
        ELSE stage

\* (mutant) every test is an if of its own, so that one call can go through
\* several stages
update_conversation_stage_Cascade(context, t) ==
    LET time_since_last == t - context.last_interaction
        stage0 == IF time_since_last > ColdAfter
                  THEN "greeting"
                  ELSE context.conversation_stage
        stage1 == IF stage0 = "greeting" /\ context.user_info.name # None
                  THEN "getting_to_know" ELSE stage0
        stage2 == IF stage1 = "getting_to_know"
                     /\ Len(context.user_info.personality_traits) >= 2
                  THEN "exploring_preferences" ELSE stage1
    IN  IF stage2 = "exploring_preferences"
           /\ Len(context.user_info.mentioned_scents) >= 2
        THEN "refining_selection" ELSE stage2

\* update_conversation_stage, as the new value of context.conversation_stage
update_conversation_stage(context, t) ==
    LET time_since_last == t - context.last_interaction
        stage == IF time_since_last > ColdAfter
                 THEN "greeting"
                 ELSE context.conversation_stage
    IN  IF stage = "greeting"
        THEN IF context.user_info.name # None THEN "getting_to_know" ELSE stage
        ELSE IF stage = "getting_to_know"
        THEN IF Len(context.user_info.personality_traits) >= 2
             THEN "exploring_preferences" ELSE stage
        ELSE IF stage = "exploring_preferences"
        THEN IF Len(context.user_info.mentioned_scents) >= 2
             THEN "refining_selection" ELSE stage
        ELSE stage

\* (mutant) the user message is not added
begin_turn_Silent(context, message, t) ==
    LET extracted == [context EXCEPT !.user_info = extract_user_info(message, @)]
    IN  [extracted EXCEPT !.conversation_stage = update_conversation_stage(extracted, t)]

\* (mutant) the stage is updated before the message is extracted
begin_turn_StageFirst(context, message, t) ==
    LET staged == [context EXCEPT !.conversation_stage = update_conversation_stage(context, t)]
        extracted == [staged EXCEPT !.user_info = extract_user_info(message, @)]
    IN  add_message(extracted, "user", message, t)

\* lines 301-306: extract, then the stage, then the user message
begin_turn(context, message, t) ==
    LET extracted == [context EXCEPT !.user_info = extract_user_info(message, @)]
        staged == [extracted EXCEPT
                       !.conversation_stage = update_conversation_stage(extracted, t)]
    IN  add_message(staged, "user", message, t)

\* (mutant) a context is created and stored at every call
get_session_context_Always(session_id, t) ==
    [heap     |-> Append(heap, SessionContext(session_id, t)),
     sessions |-> [sessions EXCEPT ![session_id] = Len(heap) + 1]]

\* (mutant) only the last record of the history is sent
prepare_messages_Recent(context) ==
    <<[role |-> "system", content |-> SYSTEM_PROMPT],
      context.conversation_history[Len(context.conversation_history)]>>

\* lines 310-313: the message list for the upstream, a new list
prepare_messages(context) ==
    <<[role |-> "system", content |-> SYSTEM_PROMPT]>> \o context.conversation_history

\* get_session_context, as the new heap and the new dict sessions: a context
\* is created and stored only for an id that is not a key
get_session_context(session_id, t) ==
    IF sessions[session_id] = 0
    THEN [heap     |-> Append(heap, SessionContext(session_id, t)),
          sessions |-> [sessions EXCEPT ![session_id] = Len(heap) + 1]]
    ELSE [heap |-> heap, sessions |-> sessions]

\* Python truth of a body field: None and "" are false
Truthy(v) == v # None /\ v # <<>>

\* lines 397-410 inside the try: what is raised, or the response
chat_try(body) ==
    IF ~Truthy(body.session_id) \/ ~Truthy(body.message)
    THEN [raised |-> "HTTPException", status_code |-> 400]
    ELSE [raised |-> "", status_code |-> 200]

\* the classes  except Exception  catches
Exceptions == {"HTTPException", "AttributeError", "APIError"}

\* lines 412-414: except Exception: raise HTTPException(status_code=500)
chat_except(r) ==
    IF r.raised \in Exceptions
    THEN [raised |-> "HTTPException", status_code |-> 500]
    ELSE r

\* --------------------------------------------------------------- Init

Init ==
    /\ now = 0
    /\ ticks = 0
    /\ turns = 0
    /\ heap = <<>>
    /\ sessions = [s \in SessionIds |-> 0]
    /\ running = 0
    /\ pc = [t \in Tasks |-> "idle"]
    /\ data = [t \in Tasks |-> None]
    /\ session_context = [t \in Tasks |-> 0]
    /\ status = [t \in Tasks |-> 0]
    /\ out = [t \in Tasks |-> <<>>]
    /\ messages = [t \in Tasks |-> <<>>]
    /\ buffer = [t \in Tasks |-> <<>>]
    /\ full_response = [t \in Tasks |-> <<>>]
    /\ last_yield_time = [t \in Tasks |-> 0]
    /\ current_time = [t \in Tasks |-> 0]
    /\ nchunks = [t \in Tasks |-> 0]
    /\ upstream = [t \in Tasks |-> <<>>]
    /\ hist_before = [t \in Tasks |-> <<>>]
    /\ stage_before = [t \in Tasks |-> "greeting"]
    /\ cold = [t \in Tasks |-> FALSE]
    /\ overlapped = [t \in Tasks |-> FALSE]
    /\ outcome = [t \in Tasks |-> "none"]

\* ------------------------------------------------------------- actions

\* the history of the session of request t
History(t) == heap[session_context[t]].conversation_history

\* requests whose generator has begun and is not over
InTurn(t) == pc[t] \notin {"idle", "handler", "gen_start", "done"}

\* the caller receives one more fragment
Emit(t, fragment) == out' = [out EXCEPT ![t] = Append(@, fragment)]

\* time passes
Tick(d, max) ==
    /\ ticks < max
    /\ ticks' = ticks + 1
    /\ now' = now + d
    /\ UNCHANGED <<turns, store, running, pc, data, session_context, status, out,
                   locals, turn, outcome>>

\* a POST /chat arrives
Receive(t, body) ==
    /\ pc[t] = "idle"
    /\ pc' = [pc EXCEPT ![t] = "handler"]
    /\ data' = [data EXCEPT ![t] = body]
    /\ UNCHANGED <<now, ticks, turns, store, running, session_context, status, out,
                   locals, turn, outcome>>

\* (mutant) the session is resolved before the body is validated
ChatHandler_ResolvesFirst(t) ==
    /\ pc[t] = "handler"
    /\ running = 0
    /\ LET r == chat_except(chat_try(data[t]))
           id == data[t].session_id
       IN  /\ IF Truthy(id)
              THEN /\ heap' = get_session_context(id, now).heap
                   /\ sessions' = get_session_context(id, now).sessions
              ELSE UNCHANGED store
           /\ status' = [status EXCEPT ![t] = r.status_code]
           /\ IF r.raised # ""
              THEN /\ pc' = [pc EXCEPT ![t] = "done"]
                   /\ outcome' = [outcome EXCEPT ![t] = "rejected"]
                   /\ UNCHANGED session_context
              ELSE /\ session_context' = [session_context EXCEPT ![t] = sessions'[id]]
                   /\ pc' = [pc EXCEPT ![t] = "gen_start"]
                   /\ UNCHANGED outcome
    /\ UNCHANGED <<now, ticks, turns, running, data, out, locals, turn>>

\* chat(), lines 397-414
ChatHandler(t) ==
    /\ pc[t] = "handler"
    /\ running = 0
    /\ LET r == chat_except(chat_try(data[t]))
           id == data[t].session_id
       IN  IF r.raised # ""
           THEN /\ status' = [status EXCEPT ![t] = r.status_code]
                /\ pc' = [pc EXCEPT ![t] = "done"]
                /\ outcome' = [outcome EXCEPT ![t] = "rejected"]
                /\ UNCHANGED <<store, session_context>>
           ELSE /\ heap' = get_session_context(id, now).heap
                /\ sessions' = get_session_context(id, now).sessions
                /\ session_context' = [session_context EXCEPT ![t] = sessions'[id]]
                /\ status' = [status EXCEPT ![t] = r.status_code]
                /\ pc' = [pc EXCEPT ![t] = "gen_start"]
                /\ UNCHANGED outcome
    /\ UNCHANGED <<now, ticks, turns, running, data, out, locals, turn>>

\* generate_streaming_response, lines 297-325: the response body is first
\* pulled; extraction, stage and user message, then the upstream call, which
\* is synchronous: the task keeps the event loop while it waits
GenBegin(t) ==
    /\ pc[t] = "gen_start"
    /\ running = 0
    /\ LET c == session_context[t]
           message == data[t].message
           others == {u \in Tasks \ {t} : InTurn(u) /\ session_context[u] = c}
       IN  /\ hist_before' = [hist_before EXCEPT ![t] = heap[c].conversation_history]
           /\ stage_before' = [stage_before EXCEPT ![t] = heap[c].conversation_stage]
           /\ cold' = [cold EXCEPT ![t] = now - heap[c].last_interaction > ColdAfter]
           /\ overlapped' = [u \in Tasks |-> IF u = t THEN others # {}
                                             ELSE overlapped[u] \/ u \in others]
           /\ IF message = NonStr
              THEN \* message.lower() raises AttributeError: lines 372-374
                   /\ Emit(t, ApologyMessage)
                   /\ pc' = [pc EXCEPT ![t] = "at_yield_error"]
                   /\ outcome' = [outcome EXCEPT ![t] = "failed_extract"]
                   /\ UNCHANGED <<heap, messages, running>>
              ELSE /\ heap' = [heap EXCEPT ![c] = begin_turn(@, message, now)]
                   /\ messages' = [messages EXCEPT ![t] = prepare_messages(heap'[c])]
                   /\ pc' = [pc EXCEPT ![t] = "opening"]
                   /\ running' = t
                   /\ UNCHANGED <<out, outcome>>
    /\ UNCHANGED <<now, ticks, turns, sessions, data, session_context, status, locals>>

\* lines 326 and 334-336: the upstream call returns a stream
OpenOk(t) ==
    /\ pc[t] = "opening"
    /\ running = t
    /\ buffer' = [buffer EXCEPT ![t] = <<>>]
    /\ full_response' = [full_response EXCEPT ![t] = <<>>]
    /\ last_yield_time' = [last_yield_time EXCEPT ![t] = now]
    /\ pc' = [pc EXCEPT ![t] = "pulling"]
    /\ UNCHANGED <<now, ticks, turns, store, running, data, session_context, status,
                   out, current_time, nchunks, upstream, turn, outcome>>

\* lines 327-330: the upstream call raises
OpenFail(t) ==
    /\ pc[t] = "opening"
    /\ running = t
    /\ Emit(t, ApologyConnecting)
    /\ pc' = [pc EXCEPT ![t] = "at_yield_error"]
    /\ outcome' = [outcome EXCEPT ![t] = "failed_open"]
    /\ running' = 0
    /\ UNCHANGED <<now, ticks, turns, store, data, session_context, status,
                   locals, turn>>

\* lines 339-350: the stream delivers a chunk
PullChunk(t, content, max) ==
    /\ pc[t] = "pulling"
    /\ running = t
    /\ nchunks[t] < max
    /\ nchunks' = [nchunks EXCEPT ![t] = @ + 1]
    /\ IF content = None
       THEN UNCHANGED <<buffer, current_time, upstream, pc, running>>
       ELSE /\ buffer' = [buffer EXCEPT ![t] = @ \o content]
            /\ upstream' = [upstream EXCEPT ![t] = @ \o content]
            /\ current_time' = [current_time EXCEPT ![t] = now]
            /\ IF Len(buffer'[t]) >= FlushLen \/ now - last_yield_time[t] >= FlushInterval
               THEN \* await asyncio.sleep(delay)
                    /\ pc' = [pc EXCEPT ![t] = "sleeping"]
                    /\ running' = 0
               ELSE UNCHANGED <<pc, running>>
    /\ UNCHANGED <<now, ticks, turns, store, data, session_context, status, out,
                   full_response, last_yield_time, turn, outcome>>

\* lines 349-352: the delay d is over, the clock is at least d past the
\* time read at line 343, and the buffer is yielded
Wake(t, d) ==
    /\ pc[t] = "sleeping"
    /\ running = 0
    /\ now' = IF now - current_time[t] >= d THEN now ELSE current_time[t] + d
    /\ Emit(t, buffer[t])
    /\ pc' = [pc EXCEPT ![t] = "at_yield_chunk"]
    /\ UNCHANGED <<ticks, turns, store, running, data, session_context, status,
                   locals, turn, outcome>>

\* (mutant) the buffer is not emptied after it was yielded
ResumeChunk_KeepsBuffer(t) ==
    /\ pc[t] = "at_yield_chunk"
    /\ running = 0
    /\ full_response' = [full_response EXCEPT ![t] = @ \o buffer[t]]
    /\ last_yield_time' = [last_yield_time EXCEPT ![t] = current_time[t]]
    /\ pc' = [pc EXCEPT ![t] = "pulling"]
    /\ running' = t
    /\ UNCHANGED <<now, ticks, turns, store, data, session_context, status, out,
                   buffer, current_time, nchunks, upstream, turn, outcome>>

\* lines 353-355 and 339: the consumer asks for more; the next chunk is awaited
ResumeChunk(t) ==
    /\ pc[t] = "at_yield_chunk"
    /\ running = 0
    /\ full_response' = [full_response EXCEPT ![t] = @ \o buffer[t]]
    /\ buffer' = [buffer EXCEPT ![t] = <<>>]
    /\ last_yield_time' = [last_yield_time EXCEPT ![t] = current_time[t]]
    /\ pc' = [pc EXCEPT ![t] = "pulling"]
    /\ running' = t
    /\ UNCHANGED <<now, ticks, turns, store, data, session_context, status, out,
                   current_time, nchunks, upstream, turn, outcome>>

\* (mutant) the reply is added to the context created last, not to the
\* context of the request
Commit_ToLatest(t, reply) ==
    /\ heap' = [heap EXCEPT ![Len(heap)] = add_message(@, "assistant", reply, now)]
    /\ pc' = [pc EXCEPT ![t] = "done"]
    /\ outcome' = [outcome EXCEPT ![t] = "completed"]

\* lines 368-370: the reply is added to the history
Commit(t, reply) ==
    /\ heap' = [heap EXCEPT ![session_context[t]] = add_message(@, "assistant", reply, now)]
    /\ pc' = [pc EXCEPT ![t] = "done"]
    /\ outcome' = [outcome EXCEPT ![t] = "completed"]

\* lines 339 and 357-370: the stream ends
PullEnd(t) ==
    /\ pc[t] = "pulling"
    /\ running = t
    /\ running' = 0
    /\ IF buffer[t] # <<>>
       THEN /\ Emit(t, buffer[t])
            /\ pc' = [pc EXCEPT ![t] = "at_yield_rest"]
            /\ UNCHANGED <<heap, outcome>>
       ELSE /\ Commit(t, full_response[t])
            /\ UNCHANGED out
    /\ UNCHANGED <<now, ticks, turns, sessions, data, session_context, status,
                   locals, turn>>

\* lines 360-370: after the last fragment
ResumeRest(t) ==
    /\ pc[t] = "at_yield_rest"
    /\ running = 0
    /\ full_response' = [full_response EXCEPT ![t] = @ \o buffer[t]]
    /\ Commit(t, full_response'[t])
    /\ UNCHANGED <<now, ticks, turns, sessions, running, data, session_context, status,
                   out, buffer, last_yield_time, current_time, nchunks, upstream, turn>>

\* (mutant) a failure of the stream leaves the generator as an exception
PullFail_Raises(t) ==
    /\ pc[t] = "pulling"
    /\ running = t
    /\ pc' = [pc EXCEPT ![t] = "done"]
    /\ outcome' = [outcome EXCEPT ![t] = "failed_mid"]
    /\ running' = 0
    /\ UNCHANGED <<now, ticks, turns, store, data, session_context, status, out,
                   locals, turn>>

\* lines 363-366: the stream raises
PullFail(t) ==
    /\ pc[t] = "pulling"
    /\ running = t
    /\ Emit(t, ApologyResponse)
    /\ pc' = [pc EXCEPT ![t] = "at_yield_error"]
    /\ outcome' = [outcome EXCEPT ![t] = "failed_mid"]
    /\ running' = 0
    /\ UNCHANGED <<now, ticks, turns, store, data, session_context, status,
                   locals, turn>>

\* lines 370 and 372-374: add_message raises (list.append raises MemoryError,
\* an Exception, when the list cannot grow) where the reply would be added:
\* at the end of the stream when the buffer is empty, or after the last
\* fragment
CommitFail(t) ==
    /\ IF pc[t] = "pulling"
       THEN /\ running = t
            /\ buffer[t] = <<>>
            /\ running' = 0
            /\ UNCHANGED full_response
       ELSE /\ pc[t] = "at_yield_rest"
            /\ running = 0
            /\ full_response' = [full_response EXCEPT ![t] = @ \o buffer[t]]
            /\ UNCHANGED running
    /\ Emit(t, ApologyMessage)
    /\ pc' = [pc EXCEPT ![t] = "at_yield_error"]
    /\ outcome' = [outcome EXCEPT ![t] = "failed_commit"]
    /\ UNCHANGED <<now, ticks, turns, store, data, session_context, status,
                   buffer, last_yield_time, current_time, nchunks, upstream, turn>>

\* (mutant) after an apology the upstream is called again
ResumeError_Retries(t) ==
    /\ pc[t] = "at_yield_error"
    /\ running = 0
    /\ pc' = [pc EXCEPT ![t] = "opening"]
    /\ running' = t
    /\ UNCHANGED <<now, ticks, turns, store, data, session_context, status,
                   out, locals, turn, outcome>>

\* (mutant) after an apology the generator goes on to line 370
ResumeError_GoesOn(t) ==
    /\ pc[t] = "at_yield_error"
    /\ running = 0
    /\ heap' = [heap EXCEPT ![session_context[t]] =
                    add_message(@, "assistant", full_response[t], now)]
    /\ pc' = [pc EXCEPT ![t] = "done"]
    /\ UNCHANGED <<now, ticks, turns, sessions, running, data, session_context, status,
                   out, locals, turn, outcome>>

\* lines 330, 366, 374: after an apology the generator returns
ResumeError(t) ==
    /\ pc[t] = "at_yield_error"
    /\ running = 0
    /\ pc' = [pc EXCEPT ![t] = "done"]
    /\ UNCHANGED <<now, ticks, turns, store, running, data, session_context, status,
                   out, locals, turn, outcome>>

\* (mutant) the reply so far is added to the history when the generator is
\* closed
Cancel_Commits(t) ==
    /\ pc[t] \in {"sleeping", "at_yield_chunk", "at_yield_rest"}
    /\ running = 0
    /\ heap' = [heap EXCEPT ![session_context[t]] =
                    add_message(@, "assistant", full_response[t], now)]
    /\ pc' = [pc EXCEPT ![t] = "done"]
    /\ outcome' = [outcome EXCEPT ![t] = "cancelled"]
    /\ UNCHANGED <<now, ticks, turns, sessions, running, data, session_context, status,
                   out, locals, turn>>

\* the consumer is cancelled or gone: CancelledError is raised at the await
\* of line 350, or GeneratorExit at the yield of line 352 or 359.  Both are
\* BaseExceptions that no except of lines 327-374 catches: the generator is
\* over, and line 370 is not reached
Cancel(t) ==
    /\ pc[t] \in {"sleeping", "at_yield_chunk", "at_yield_rest"}
    /\ running = 0
    /\ pc' = [pc EXCEPT ![t] = "done"]
    /\ outcome' = [outcome EXCEPT ![t] = "cancelled"]
    /\ UNCHANGED <<now, ticks, turns, store, running, data, session_context, status,
                   out, locals, turn>>

\* the response is closed and the client goes on to its next request
Finish(t, max) ==
    /\ pc[t] = "done"
    /\ turns < max
    /\ turns' = turns + 1
    /\ pc' = [pc EXCEPT ![t] = "idle"]
    /\ data' = [data EXCEPT ![t] = None]
    /\ session_context' = [session_context EXCEPT ![t] = 0]
    /\ status' = [status EXCEPT ![t] = 0]
    /\ out' = [out EXCEPT ![t] = <<>>]
    /\ messages' = [messages EXCEPT ![t] = <<>>]
    /\ buffer' = [buffer EXCEPT ![t] = <<>>]
    /\ full_response' = [full_response EXCEPT ![t] = <<>>]
    /\ last_yield_time' = [last_yield_time EXCEPT ![t] = 0]
    /\ current_time' = [current_time EXCEPT ![t] = 0]
    /\ nchunks' = [nchunks EXCEPT ![t] = 0]
    /\ upstream' = [upstream EXCEPT ![t] = <<>>]
    /\ hist_before' = [hist_before EXCEPT ![t] = <<>>]
    /\ stage_before' = [stage_before EXCEPT ![t] = "greeting"]
    /\ cold' = [cold EXCEPT ![t] = FALSE]
    /\ overlapped' = [overlapped EXCEPT ![t] = FALSE]
    /\ outcome' = [outcome EXCEPT ![t] = "none"]
    /\ UNCHANGED <<now, ticks, store, running>>

\* two concurrent requests
Next ==
    \/ \E t \in Tasks, body \in Bodies : Receive(t, body)
    \/ \E t \in Tasks : ChatHandler(t)
    \/ \E t \in Tasks : GenBegin(t)
    \/ \E t \in Tasks : OpenOk(t)
    \/ \E t \in Tasks : OpenFail(t)
    \/ \E t \in Tasks, content \in Chunks : PullChunk(t, content, MaxChunks)
    \/ \E t \in Tasks, d \in Delays : Wake(t, d)
    \/ \E t \in Tasks : ResumeChunk(t)
    \/ \E t \in Tasks : PullEnd(t)
    \/ \E t \in Tasks : ResumeRest(t)
    \/ \E t \in Tasks : PullFail(t)
    \/ \E t \in Tasks : ResumeError(t)

Spec == Init /\ [][Next]_vars

\* one request and its stream
NextStream ==
    \/ \E d \in StreamTicks : Tick(d, MaxTicks)
    \/ \E body \in StreamBodies : Receive(1, body)
    \/ ChatHandler(1)
    \/ GenBegin(1)
    \/ OpenOk(1)
    \/ OpenFail(1)
    \/ \E content \in StreamChunks : PullChunk(1, content, MaxStreamChunks)
    \/ \E d \in StreamDelays : Wake(1, d)
    \/ ResumeChunk(1)
    \/ PullEnd(1)
    \/ ResumeRest(1)
    \/ PullFail(1)
    \/ CommitFail(1)
    \/ ResumeError(1)
    \/ Cancel(1)

SpecStream == Init /\ [][NextStream]_vars

\* the steps of a request whose consumer keeps pulling: the event loop runs
\* what is ready, a delay ends, the upstream answers
LiveStep ==
    \/ ChatHandler(1)
    \/ GenBegin(1)
    \/ OpenOk(1)
    \/ OpenFail(1)
    \/ \E content \in StreamChunks : PullChunk(1, content, MaxStreamChunks)
    \/ \E d \in StreamDelays : Wake(1, d)
    \/ ResumeChunk(1)
    \/ PullEnd(1)
    \/ ResumeRest(1)
    \/ PullFail(1)
    \/ CommitFail(1)
    \/ ResumeError(1)

\* one request and its stream, with a consumer that stays
NextLive ==
    \/ \E d \in StreamTicks : Tick(d, MaxTicks)
    \/ \E body \in StreamBodies : Receive(1, body)
    \/ ChatHandler(1)
    \/ GenBegin(1)
    \/ OpenOk(1)
    \/ OpenFail(1)
    \/ \E content \in StreamChunks : PullChunk(1, content, MaxStreamChunks)
    \/ \E d \in StreamDelays : Wake(1, d)
    \/ ResumeChunk(1)
    \/ PullEnd(1)
    \/ ResumeRest(1)
    \/ PullFail(1)
    \/ CommitFail(1)
    \/ ResumeError(1)

\* a step that can be taken is taken in the end: the upstream delivers at
\* most MaxStreamChunks chunks and then ends or fails
SpecLive == Init /\ [][NextLive]_vars /\ WF_vars(LiveStep)

\* one client, turn after turn; the upstream replies with no text
NextTurns ==
    \/ \E d \in TurnTicks : Tick(d, MaxTicks)
    \/ \E body \in TurnBodies : Receive(1, body)
    \/ ChatHandler(1)
    \/ GenBegin(1)
    \/ OpenOk(1)
    \/ PullEnd(1)
    \/ Finish(1, MaxTurns)

SpecTurns == Init /\ [][NextTurns]_vars

\* --------------------------------------------------------------- claims

\* the place of a stage in greeting < getting_to_know < ... < refining_selection
Rank(stage) == CHOOSE k \in 1..Len(Stages) : Stages[k] = stage

\* the fragments of a sequence, concatenated
RECURSIVE Flatten(_)
Flatten(fragments) ==
    IF fragments = <<>> THEN <<>> ELSE Head(fragments) \o Flatten(Tail(fragments))

NoDuplicates(list) == \A i, j \in 1..Len(list) : list[i] = list[j] => i = j

IsPrefix(a, b) == Len(a) <= Len(b) /\ SubSeq(b, 1, Len(a)) = a

UserRecord(message) == [role |-> "user", content |-> message]
AssistantRecord(reply) == [role |-> "assistant", content |-> reply]

Contexts == 1..Len(heap)

\* C1 (as claimed): a turn that begins on a session that is cold and in stage
\* refining_selection leaves the session in stage greeting, whatever its
\* userInfo holds.
C1_ColdSessionEndsInGreeting ==
    \A t \in Tasks :
        (pc[t] = "opening" /\ cold[t] /\ stage_before[t] = "refining_selection")
        => heap[session_context[t]].conversation_stage = "greeting"

\* C2 (as claimed): when the upstream call fails to start, the history of the
\* session is what it was before the turn.
C2_FailedStartLeavesHistory ==
    \A t \in Tasks : outcome[t] = "failed_open" => History(t) = hist_before[t]

\* C3 (as claimed): a request whose body lacks session_id or message is
\* answered with status 400.
C3_MissingFieldIs400 ==
    \A t \in Tasks :
        (pc[t] \notin {"idle", "handler"}
         /\ (data[t].session_id = None \/ data[t].message = None))
        => status[t] = 400

\* a request that has something to do as soon as the event loop takes it up
Ready(t) ==
    pc[t] \in {"handler", "gen_start", "sleeping", "at_yield_chunk", "at_yield_rest",
               "at_yield_error"}

\* C4 (as claimed): while a stream is in its delay, or waits for the upstream
\* to open or for its next chunk, it does not hold the event loop when a
\* request of another session is ready to run.
C4_WaitingStreamLeavesLoopFree ==
    \A t \in Tasks :
        pc[t] \in {"sleeping", "opening", "pulling"}
        => \A u \in Tasks \ {t} :
               (Ready(u) /\ data[u].session_id # data[t].session_id) => running # t

\* C5: a name, once set, keeps its value in every step.
C5_NameIsNeverOverwritten ==
    [][\A h \in Contexts :
          heap[h].user_info.name # None
          => heap'[h].user_info.name = heap[h].user_info.name]_vars

\* C5's case: the session is named Alice and a later turn asked to be
\* called Bob
C5_Witness ==
    \E h \in Contexts :
        /\ heap[h].user_info.name = <<"A","l","i","c","e">>
        /\ InList(UserRecord(MsgBob), heap[h].conversation_history)

\* C6: scentPreferences, personalityTraits and mentionedScents never hold a
\* value twice, and no step removes or reorders an entry.
C6_ListsWithoutDuplicates ==
    /\ [](\A h \in Contexts :
             /\ NoDuplicates(heap[h].user_info.scent_preferences)
             /\ NoDuplicates(heap[h].user_info.personality_traits)
             /\ NoDuplicates(heap[h].user_info.mentioned_scents))
    /\ [][\A h \in Contexts :
             /\ IsPrefix(heap[h].user_info.scent_preferences,
                         heap'[h].user_info.scent_preferences)
             /\ IsPrefix(heap[h].user_info.personality_traits,
                         heap'[h].user_info.personality_traits)
             /\ IsPrefix(heap[h].user_info.mentioned_scents,
                         heap'[h].user_info.mentioned_scents)]_vars

\* C6's case: two turns with the message that captures "rose" twice
C6_Witness ==
    \E h \in Contexts :
        /\ heap[h].conversation_history = <<UserRecord(MsgBob), UserRecord(MsgBob)>>
        /\ heap[h].user_info.mentioned_scents = <<<<"r","o","s","e">>, <<>>>>
        /\ Len(heap[h].user_info.scent_preferences) = 2

\* C7: a step lowers the stage of a session only if it is the beginning of a
\* turn on that session, more than 1800 s after its last interaction.
C7_StageLoweredOnlyWhenCold ==
    [][\A h \in Contexts :
          Rank(heap'[h].conversation_stage) < Rank(heap[h].conversation_stage)
          => /\ now - heap[h].last_interaction > ColdAfter
             /\ \E t \in Tasks : /\ session_context[t] = h
                                  /\ pc[t] = "gen_start"
                                  /\ pc'[t] = "opening"]_vars

\* C7's case: a turn on a cold session has lowered its stage
C7_Witness ==
    \E t \in Tasks :
        /\ pc[t] = "opening"
        /\ cold[t]
        /\ Rank(heap[session_context[t]].conversation_stage) < Rank(stage_before[t])

\* C8: a turn that no other turn of its session overlapped, and whose stream
\* opened and ended, has added to the history the user message and then the
\* whole reply, and nothing else.
C8_TurnAppendsUserThenAssistant ==
    [][\A t \in Tasks :
          (outcome[t] # "completed" /\ outcome'[t] = "completed" /\ ~overlapped[t])
          => heap'[session_context[t]].conversation_history
             = hist_before[t]
               \o <<UserRecord(data[t].message), AssistantRecord(upstream[t])>>]_vars

\* C8's case: such a turn on a session that had a history, with a reply
C8_Witness ==
    \E t \in Tasks :
        /\ pc[t] = "done"
        /\ outcome[t] = "completed"
        /\ ~overlapped[t]
        /\ hist_before[t] # <<>>
        /\ upstream[t] # <<>>

\* C9: when a stream has ended, the fragments the caller received, in order,
\* make up the text the upstream delivered, and so does the reply in the
\* history.
C9_EmittedEqualsUpstream ==
    \A t \in Tasks :
        outcome[t] = "completed"
        => /\ Flatten(out[t]) = upstream[t]
           /\ History(t)[Len(History(t))] = AssistantRecord(upstream[t])

\* C9's case: three chunks, one of them without text, that reached the
\* caller as one fragment
C9_Witness ==
    \E t \in Tasks :
        /\ outcome[t] = "completed"
        /\ nchunks[t] = 3
        /\ upstream[t] = <<"a","b","c">>
        /\ out[t] = <<<<"a","b","c">>>>

\* C10: when the upstream fails mid-stream, the caller has the fragments
\* emitted before, then the apology, and nothing after it; the history gets
\* the user message and never an assistant record.
C10_MidStreamFailure ==
    \A t \in Tasks :
        outcome[t] = "failed_mid"
        => /\ out[t] # <<>>
           /\ out[t][Len(out[t])] = ApologyResponse
           /\ \A k \in 1..(Len(out[t]) - 1) : out[t][k] \notin Apologies
           /\ Flatten(SubSeq(out[t], 1, Len(out[t]) - 1)) = full_response[t]
           /\ IsPrefix(full_response[t], upstream[t])
           /\ History(t) = hist_before[t] \o <<UserRecord(data[t].message)>>

\* C10's case: the stream failed after a fragment and the generator is over
C10_Witness ==
    \E t \in Tasks :
        /\ outcome[t] = "failed_mid"
        /\ pc[t] = "done"
        /\ Len(out[t]) >= 2
        /\ Len(upstream[t]) > Len(full_response[t])

\* the outcomes of a stream that failed
Failed == {"failed_extract", "failed_open", "failed_mid", "failed_commit"}

\* C11: a stream that failed, at extraction, at the upstream call, mid-stream
\* or at the final commit, has emitted one apology and only one, as its last
\* fragment; it emits nothing after it, it is over once the consumer asks for
\* more, and the HTTP layer has had no exception (the response stays a 200).
C11_FailureEndsInOneApology ==
    /\ [](\A t \in Tasks :
             outcome[t] \in Failed
             => /\ pc[t] \in {"at_yield_error", "done"}
                /\ status[t] = 200
                /\ out[t] # <<>>
                /\ out[t][Len(out[t])] \in Apologies
                /\ \A k \in 1..(Len(out[t]) - 1) : out[t][k] \notin Apologies)
    /\ [][\A t \in Tasks :
             outcome[t] \in Failed
             => /\ out'[t] = out[t]
                /\ outcome'[t] = outcome[t]
                /\ pc'[t] \in {pc[t], "done"}]_vars

\* C11's case: the stream gave text, its end came, the commit failed, and
\* the generator is over
C11_Witness ==
    \E t \in Tasks :
        /\ outcome[t] = "failed_commit"
        /\ pc[t] = "done"
        /\ out[t] = <<<<"a">>, ApologyMessage>>

\* requests that have resolved their session
Resolved(t) == pc[t] \notin {"idle", "handler"} /\ session_context[t] # 0

\* C12: at most one SessionContext is ever created for a session id; the
\* requests with that id, concurrent first requests included, all hold that
\* context; an id in the store stays, bound to the same context.
C12_OneContextPerSession ==
    /\ [](/\ \A h, k \in Contexts : heap[h].session_id = heap[k].session_id => h = k
          /\ \A id \in SessionIds :
                sessions[id] # 0 => heap[sessions[id]].session_id = id
          /\ \A t \in Tasks :
                Resolved(t) => session_context[t] = sessions[data[t].session_id])
    /\ [][\A id \in SessionIds : sessions[id] # 0 => sessions'[id] = sessions[id]]_vars

\* C12's case: two requests that were both waiting with the same unseen id
\* have resolved it, and their turns are in flight together
C12_Witness ==
    /\ Len(heap) = 1
    /\ \A t \in Tasks : Resolved(t) /\ InTurn(t) /\ overlapped[t]
    /\ session_context[1] = session_context[2]

\* C13: the step that rejects a request whose body lacks session_id or
\* message leaves the store as it was, no session created and no context
\* changed; the rejected request has no context and is over.
C13_RejectedLeavesStore ==
    /\ [][\A t \in Tasks :
             (pc[t] = "handler" /\ pc'[t] # "handler"
              /\ (~Truthy(data[t].session_id) \/ ~Truthy(data[t].message)))
             => /\ heap' = heap
                /\ sessions' = sessions
                /\ outcome'[t] = "rejected"]_vars
    /\ [](\A t \in Tasks :
             outcome[t] = "rejected" => pc[t] = "done" /\ session_context[t] = 0)

\* C13's case: a request that names a session with a history, without a
\* message, was rejected while a turn of that session is in flight
C13_Witness ==
    \E t \in Tasks :
        /\ outcome[t] = "rejected"
        /\ data[t].session_id = S1
        /\ sessions[S1] # 0
        /\ heap[sessions[S1]].conversation_history # <<>>
        /\ \E u \in Tasks \ {t} : InTurn(u)

\* C14: extraction comes before the stage update: a turn that begins on a
\* session that is not cold, is in stage greeting and has no name, and whose
\* message gives the name, puts the session in stage getting_to_know at
\* once, and the stage stays so until the turn is over.
C14_NameAdvancesStageInSameTurn ==
    /\ [][\A t \in Tasks :
             LET c == session_context[t]
             IN  (/\ pc[t] = "gen_start" /\ pc'[t] = "opening"
                  /\ now - heap[c].last_interaction <= ColdAfter
                  /\ heap[c].conversation_stage = "greeting"
                  /\ heap[c].user_info.name = None
                  /\ heap'[c].user_info.name # None)
                 => heap'[c].conversation_stage = "getting_to_know"]_vars
    /\ [][\A t \in Tasks :
             LET c == session_context[t]
             IN  InTurn(t) => heap'[c].conversation_stage = heap[c].conversation_stage]_vars

\* C14's case: a session that had a turn without a name, and is still in
\* greeting, has had the turn "my name is Alice" and is in getting_to_know
C14_Witness ==
    \E t \in Tasks :
        /\ outcome[t] = "completed"
        /\ ~cold[t]
        /\ stage_before[t] = "greeting"
        /\ hist_before[t] # <<>>
        /\ \A k \in 1..Len(hist_before[t]) : hist_before[t][k].content # MsgAlice
        /\ data[t].message = MsgAlice
        /\ heap[session_context[t]].user_info.name = <<"A","l","i","c","e">>
        /\ heap[session_context[t]].conversation_stage = "getting_to_know"

\* the condition under which a session leaves a stage for the next one
Guard(stage, user_info) ==
    CASE stage = "greeting"              -> user_info.name # None
      [] stage = "getting_to_know"       -> Len(user_info.personality_traits) >= 2
      [] stage = "exploring_preferences" -> Len(user_info.mentioned_scents) >= 2
      [] stage = "refining_selection"    -> FALSE

\* C15: on a session that is not cold, the stage update of a turn moves the
\* stage to the next one if the guard of the current stage holds (on the
\* userInfo as extracted in this turn), and leaves it otherwise; it never
\* moves it by more than one stage.
C15_OneStepByCurrentGuard ==
    [][\A t \in Tasks :
          LET c == session_context[t]
              before == Rank(heap[c].conversation_stage)
              after == Rank(heap'[c].conversation_stage)
          IN  (/\ pc[t] = "gen_start" /\ pc'[t] = "opening"
               /\ now - heap[c].last_interaction <= ColdAfter)
              => after = IF Guard(heap[c].conversation_stage, heap'[c].user_info)
                         THEN before + 1
                         ELSE before]_vars

\* C15's case: the first turn of a session gives a name, two traits and two
\* scents, so that the guards of three stages hold, and the session is in
\* getting_to_know
C15_Witness ==
    \E t \in Tasks :
        /\ pc[t] = "opening"
        /\ ~cold[t]
        /\ stage_before[t] = "greeting"
        /\ LET c == heap[session_context[t]]
           IN  /\ c.user_info.name # None
               /\ Len(c.user_info.personality_traits) >= 2
               /\ Len(c.user_info.mentioned_scents) >= 2
               /\ c.conversation_stage = "getting_to_know"

\* C16: once the generator was closed at an emission or during its delay,
\* the stream is over: it pulls no further chunk and emits nothing, and the
\* history of the session holds the user message of the turn and never an
\* assistant record for it.
C16_CancelledStreamNeverCommits ==
    /\ [](\A t \in Tasks :
             outcome[t] = "cancelled"
             => /\ pc[t] = "done"
                /\ History(t) = hist_before[t] \o <<UserRecord(data[t].message)>>)
    /\ [][\A t \in Tasks :
             outcome[t] = "cancelled"
             => /\ nchunks'[t] = nchunks[t]
                /\ upstream'[t] = upstream[t]
                /\ out'[t] = out[t]
                /\ outcome'[t] = "cancelled"]_vars

\* C16's case: the consumer went away after it had received a fragment,
\* with more text in the buffer
C16_Witness ==
    \E t \in Tasks :
        /\ outcome[t] = "cancelled"
        /\ out[t] # <<>>
        /\ full_response[t] # <<>>
        /\ buffer[t] # <<>>

\* C17: while the upstream call of a turn is being made, the message list it
\* was given is the system prompt followed by the whole history of the
\* session as it stands, whose last record is the user message of this turn,
\* also when other turns of the session are in flight; no history holds a
\* system record or the system prompt.
C17_SentMessagesArePromptThenHistory ==
    /\ \A t \in Tasks :
          pc[t] = "opening"
          => /\ messages[t] = <<[role |-> "system", content |-> SYSTEM_PROMPT]>> \o History(t)
             /\ messages[t][Len(messages[t])] = UserRecord(data[t].message)
    /\ \A h \in Contexts :
          \A k \in 1..Len(heap[h].conversation_history) :
              /\ heap[h].conversation_history[k].role \in {"user", "assistant"}
              /\ heap[h].conversation_history[k].content # SYSTEM_PROMPT

\* C17's case: the upstream call of a turn is made while another turn of the
\* session is in flight, whose user message and first fragment came before
C17_Witness ==
    \E t \in Tasks :
        /\ pc[t] = "opening"
        /\ overlapped[t]
        /\ Len(messages[t]) = 3
        /\ \E u \in Tasks \ {t} : pc[u] = "at_yield_chunk" /\ out[u] # <<>>

\* C18 (as claimed): whenever the streamer is about to pull the next upstream
\* chunk its buffer holds fewer than 3 characters, and every fragment it has
\* emitted is non-empty.
C18_BufferShortAndFragmentsNonEmpty ==
    \A t \in Tasks :
        /\ pc[t] = "pulling" => Len(buffer[t]) < FlushLen
        /\ \A k \in 1..Len(out[t]) : out[t][k] # <<>>

\* the outcomes of a stream that is over
Terminal == Failed \cup {"completed"}

\* not-started (1), streaming (2), completed or failed (3)
Phase(t) ==
    IF outcome[t] \in Terminal THEN 3
    ELSE IF pc[t] \in {"idle", "handler", "gen_start"} THEN 1
    ELSE 2

\* C19: with an upstream that ends or fails and a consumer that keeps
\* pulling, a stream that was created reaches completed or failed and its
\* generator ends; the invocation never goes back (not-started, streaming,
\* then completed or failed), never leaves completed or failed, and calls
\* the upstream only from its beginning, so at most once.
C19_StreamIsFinite ==
    /\ \A t \in Tasks :
          (pc[t] = "gen_start") ~> (pc[t] = "done" /\ outcome[t] \in Terminal)
    /\ [][\A t \in Tasks :
             /\ Phase(t)' >= Phase(t)
             /\ outcome[t] \in Terminal => outcome'[t] = outcome[t]
             /\ (pc'[t] = "opening" /\ pc[t] # "opening") => pc[t] = "gen_start"
             /\ (pc'[t] = "gen_start" /\ pc[t] # "gen_start") => pc[t] = "handler"]_vars

\* C19's case: a stream of three chunks that went through two delays and
\* a last fragment, and is completed
C19_Witness ==
    \E t \in Tasks :
        /\ pc[t] = "done"
        /\ outcome[t] = "completed"
        /\ nchunks[t] = MaxStreamChunks
        /\ Len(out[t]) = 3

\* C20: a step changes at most one context, and only as a step of a request
\* that holds this context and carries its session id: the userInfo, stage,
\* history and lastInteraction of every other session stay as they are,
\* under every interleaving; no two contexts have the same session id, and
\* a new context leaves the others as they are.
C20_SessionsAreIsolated ==
    /\ [][/\ Len(heap') >= Len(heap)
          /\ \A h \in Contexts :
                heap'[h] # heap[h]
                => /\ heap'[h].session_id = heap[h].session_id
                   /\ \A k \in Contexts : heap'[k] # heap[k] => k = h
                   /\ \E t \in Tasks :
                         /\ session_context[t] = h
                         /\ data[t].session_id = heap[h].session_id
                         /\ pc'[t] # pc[t]
                         /\ \A u \in Tasks \ {t} : pc'[u] = pc[u]]_vars
    /\ [](\A h, k \in Contexts : heap[h].session_id = heap[k].session_id => h = k)

\* C20's case: the turns of two sessions were in flight together, one is
\* completed with a reply, and each session has the history of its own turn
C20_Witness ==
    /\ Len(heap) = 2
    /\ \A t \in Tasks : Resolved(t) /\ pc[t] # "gen_start" /\ outcome[t] # "rejected"
    /\ session_context[1] # session_context[2]
    /\ outcome[1] = "completed"
    /\ InTurn(2)
    /\ Len(out[2]) >= 1
    /\ heap[session_context[1]].conversation_history
         = <<UserRecord(data[1].message), AssistantRecord(upstream[1])>>
    /\ heap[session_context[2]].conversation_history = <<UserRecord(data[2].message)>>
    /\ upstream[1] # <<>>

====
